---- MODULE Spec2Model ----
(***************************************************************************)
(* unplugged-search: the query parser (src/parser.rs) and the search       *)
(* pipeline of handle_search (src/main.rs).                                *)
(*                                                                         *)
(* A string is a sequence of characters (Vec<char>); a character is a      *)
(* one-character TLA+ string.  The cursor `index` is 0-based as in the     *)
(* code, so the character under the cursor is source[index + 1].           *)
(*                                                                         *)
(* handle_search destructures ParseResult { terms, exclude }, which is the *)
(* return of parse_query in src/parser.rs; that parser is the one here.    *)
(***************************************************************************)
EXTENDS Integers, Sequences, FiniteSets, TLC

VARIABLES
    source,           \* QueryParser.source : Vec<char>
    index,            \* QueryParser.index  : usize
    terms,            \* parse(): terms   : Vec<String>
    exclude,          \* parse(): exclude : Vec<String>
    pc,               \* position of the running call
    catalog,          \* AppState.episodes_by_id : id -> Episode
    search_terms,     \* handle_search: terms   : HashSet<String>
    search_exclude,   \* handle_search: exclude : HashSet<String>
    search_results,   \* handle_search: search_results : HashSet<Episode>
    scored,           \* handle_search: search_results_with_score : Vec<(score, &Episode)>
    results           \* handle_search: the ordered episodes handed to the template

vars == <<source, index, terms, exclude, pc, catalog, search_terms, search_exclude,
          search_results, scored, results>>

parser_vars == <<source, index, terms, exclude>>
search_vars == <<catalog, search_terms, search_exclude, search_results, scored, results>>

----------------------------------------------------------------------------
(* Bounds of the model *)

MaxLen == 7          \* longest query string of the parser specification
MaxTokens == 2       \* most tokens of a query of the search specification
MaxRecords == 2      \* most episodes of a catalog

----------------------------------------------------------------------------
(* Characters and strings *)

Dash == "-"
DQuote == "\""
Space == " "

\* the characters queries of the parser specification are made of; "a" stands for
\* any character that is no whitespace, dash or quote (a letter, or a symbol of
\* several bytes, which is one char of the Vec<char>)
Alphabet == {"a", Dash, DQuote, Space}

\* the value a read outside the character sequence stands for (the index panics)
Panic == "panic"

\* char::is_whitespace
char_is_whitespace(ch) == ch = Space

\* char / str to_lowercase, on the letters the model uses
char_to_lowercase(ch) ==
    CASE ch = "A" -> "a"
      [] ch = "B" -> "b"
      [] OTHER -> ch

to_lowercase(s) == [i \in 1..Len(s) |-> char_to_lowercase(s[i])]

\* str::starts_with(char)
starts_with(s, ch) == Len(s) > 0 /\ s[1] = ch

\* str::trim_start_matches(char)
RECURSIVE trim_start_matches(_, _)
trim_start_matches(s, ch) ==
    IF starts_with(s, ch) THEN trim_start_matches(Tail(s), ch) ELSE s

RECURSIVE trim_start(_)
trim_start(s) ==
    IF Len(s) > 0 /\ char_is_whitespace(s[1]) THEN trim_start(Tail(s)) ELSE s

RECURSIVE trim_end(_)
trim_end(s) ==
    IF Len(s) > 0 /\ char_is_whitespace(s[Len(s)])
    THEN trim_end(SubSeq(s, 1, Len(s) - 1))
    ELSE s

\* str::trim
trim(s) == trim_end(trim_start(s))

\* str::contains(&str): t occurs in s as a contiguous substring
contains(s, t) ==
    \E k \in 0..(Len(s) - Len(t)) : SubSeq(s, k + 1, k + Len(t)) = t

\* all strings over S of length at most n
StringsUpTo(S, n) == UNION {[1..k -> S] : k \in 0..n}

----------------------------------------------------------------------------
(* QueryParser (src/parser.rs) *)

\* is_end with `>` written for `>=`
is_end_strict(src, i) == i > Len(src)

is_end(src, i) == i >= Len(src)

is_not_end(src, i) == i < Len(src)

\* self.source[self.index]: panics when the index is out of bounds
peek(src, i) == IF i < Len(src) THEN src[i + 1] ELSE Panic

\* peek_next looking one character too far
peek_next_off_by_one(src, i) == i + 2 < Len(src)

\* self.source.get(self.index + 1): None when out of bounds
peek_next_is_some(src, i) == i + 1 < Len(src)

advance(i) == i + 1

\* The loops return the cursor they stop at and whether every read was in bounds.
Stop(i, ok) == [index |-> i, ok |-> ok]

\* trim_left: while self.is_not_end() && self.is_whitespace() { self.advance() }
RECURSIVE trim_left(_, _)
trim_left(src, i) ==
    IF ~is_not_end(src, i) THEN Stop(i, TRUE)
    ELSE IF peek(src, i) = Panic THEN Stop(i, FALSE)
    ELSE IF char_is_whitespace(peek(src, i)) THEN trim_left(src, advance(i))
    ELSE Stop(i, TRUE)

\* trim_while(|ch| ch == '-')
RECURSIVE trim_while_dash(_, _)
trim_while_dash(src, i) ==
    IF ~is_not_end(src, i) THEN Stop(i, TRUE)
    ELSE IF peek(src, i) = Panic THEN Stop(i, FALSE)
    ELSE IF peek(src, i) = Dash THEN trim_while_dash(src, advance(i))
    ELSE Stop(i, TRUE)

\* the quoted loop also stopping at whitespace, as the bare loop does
RECURSIVE quoted_loop_words(_, _)
quoted_loop_words(src, i) ==
    IF ~is_not_end(src, i) THEN Stop(i, TRUE)
    ELSE IF peek(src, i) = Panic THEN Stop(i, FALSE)
    ELSE IF peek(src, i) # DQuote /\ ~char_is_whitespace(peek(src, i))
    THEN quoted_loop_words(src, advance(i))
    ELSE Stop(i, TRUE)

\* while self.is_not_end() && self.peek() != '"' { token.push(self.peek_advance()) }
RECURSIVE quoted_loop(_, _)
quoted_loop(src, i) ==
    IF ~is_not_end(src, i) THEN Stop(i, TRUE)
    ELSE IF peek(src, i) = Panic THEN Stop(i, FALSE)
    ELSE IF peek(src, i) # DQuote THEN quoted_loop(src, advance(i))
    ELSE Stop(i, TRUE)

\* while self.is_not_end() && self.is_not_whitespace() { token.push(self.peek_advance()) }
RECURSIVE bare_loop(_, _)
bare_loop(src, i) ==
    IF ~is_not_end(src, i) THEN Stop(i, TRUE)
    ELSE IF peek(src, i) = Panic THEN Stop(i, FALSE)
    ELSE IF ~char_is_whitespace(peek(src, i)) THEN bare_loop(src, advance(i))
    ELSE Stop(i, TRUE)

\* the characters pushed onto the token while the cursor went from i to j
pushed(src, i, j) == SubSeq(src, i + 1, j)

\* What a get_token call gives: Some(token) or None, the cursor it leaves, whether
\* every read was in bounds (ok), and whether every call on the way that returned
\* Some had moved the cursor (moved).
TokenResult(some, token, i, ok, moved) ==
    [some |-> some, token |-> token, index |-> i, ok |-> ok, moved |-> moved]

RECURSIVE get_token(_, _)
get_token(src, i0) ==
    LET t == IF is_not_end(src, i0) /\ char_is_whitespace(peek(src, i0))
             THEN trim_left(src, i0)
             ELSE Stop(i0, TRUE)
        i == t.index
    IN  IF ~t.ok THEN TokenResult(FALSE, <<>>, i, FALSE, TRUE)
        ELSE IF is_end(src, i) THEN TokenResult(FALSE, <<>>, i, TRUE, TRUE)
        ELSE IF peek(src, i) = Panic THEN TokenResult(FALSE, <<>>, i, FALSE, TRUE)
        ELSE IF peek(src, i) = Dash THEN
            LET d == trim_while_dash(src, i) IN
            IF ~d.ok THEN TokenResult(FALSE, <<>>, d.index, FALSE, TRUE)
            ELSE IF peek_next_is_some(src, d.index) THEN
                LET r == get_token(src, d.index) IN
                IF r.some
                THEN TokenResult(TRUE, <<Dash>> \o r.token, r.index, r.ok,
                                 r.moved /\ r.index > i0)
                ELSE r
            ELSE TokenResult(TRUE, <<>>, d.index, TRUE, d.index > i0)
        ELSE IF peek(src, i) = DQuote THEN
            LET q == quoted_loop(src, advance(i)) IN
            TokenResult(q.ok, pushed(src, advance(i), q.index), advance(q.index), q.ok,
                        advance(q.index) > i0)
        ELSE IF ~char_is_whitespace(peek(src, i)) THEN
            LET b == bare_loop(src, i) IN
            TokenResult(b.ok, pushed(src, i, b.index), b.index, b.ok, b.index > i0)
        ELSE TokenResult(TRUE, <<>>, i, TRUE, i > i0)

\* the loop body pushing the exclude token with its dashes left on
classify_keeps_dashes(token, ts, ex) ==
    IF starts_with(token, Dash)
    THEN [terms |-> ts, exclude |-> Append(ex, trim(token))]
    ELSE [terms |-> Append(ts, trim(token)), exclude |-> ex]

\* the body of parse()'s loop: where one token goes
classify(token, ts, ex) ==
    IF starts_with(token, Dash)
    THEN LET exclude_token == trim_start_matches(token, Dash) IN
         IF exclude_token # <<>>
         THEN [terms |-> ts, exclude |-> Append(ex, trim(exclude_token))]
         ELSE [terms |-> ts, exclude |-> ex]
    ELSE [terms |-> Append(ts, trim(token)), exclude |-> ex]

\* parse(): while let Some(token) = self.get_token() { ... }; ParseResult { terms, exclude }
RECURSIVE parse_loop(_, _, _, _)
parse_loop(src, i, ts, ex) ==
    LET r == get_token(src, i) IN
    IF ~r.ok \/ ~r.some THEN [terms |-> ts, exclude |-> ex]
    ELSE LET c == classify(r.token, ts, ex) IN parse_loop(src, r.index, c.terms, c.exclude)

\* parse_query(query): QueryParser::new(query).parse()
parse_query(query) == parse_loop(query, 0, <<>>, <<>>)

----------------------------------------------------------------------------
(* load_common_words (src/lib.rs) *)

load_common_words == {
    <<"t","h","e">>, <<"b","e">>, <<"i","s">>, <<"a","r","e">>, <<"t","o">>, <<"o","f">>,
    <<"a","n","d">>, <<"a">>, <<"a","n">>, <<"i","n">>, <<"t","h","a","t">>,
    <<"h","a","v","e">>, <<"i">>, <<"i","t">>, <<"f","o","r">>, <<"n","o","t">>, <<"o","n">>,
    <<"w","i","t","h">>, <<"h","e">>, <<"a","s">>, <<"y","o","u">>, <<"d","o">>, <<"a","t">>,
    <<"t","h","i","s">>, <<"b","u","t">>, <<"h","i","s">>, <<"b","y">>, <<"f","r","o","m">>,
    <<"t","h","e","y">>, <<"w","e">>, <<"s","a","y">>, <<"h","e","r">>, <<"s","h","e">>,
    <<"o","r">>, <<"w","i","l","l">>, <<"m","y">>, <<"o","n","e">>, <<"a","l","l">>,
    <<"w","o","u","l","d">>, <<"t","h","e","r","e">>, <<"t","h","e","i","r">>,
    <<"w","h","a","t">>, <<"s","o">>, <<"u","p">>, <<"o","u","t">>, <<"i","f">>,
    <<"a","b","o","u","t">>, <<"w","h","o">>, <<"g","e","t">>, <<"w","h","i","c","h">>,
    <<"m","e">>, <<"w","h","e","n">>, <<"m","a","k","e">>, <<"c","a","n">>,
    <<"l","i","k","e">>, <<"t","i","m","e">>, <<"n","o">>, <<"j","u","s","t">>,
    <<"h","i","m">>, <<"k","n","o","w">>, <<"t","a","k","e">>, <<"p","e","o","p","l","e">>,
    <<"i","n","t","o">>, <<"y","e","a","r">>, <<"y","o","u","r">>, <<"s","o","m","e">>,
    <<"c","o","u","l","d">>, <<"t","h","e","m">>, <<"s","e","e">>, <<"o","t","h","e","r">>,
    <<"t","h","a","n">>, <<"t","h","e","n">>, <<"n","o","w">>, <<"l","o","o","k">>,
    <<"o","n","l","y">>, <<"c","o","m","e">>, <<"i","t","s">>, <<"i","t","'","s">>,
    <<"o","v","e","r">>, <<"t","h","i","n","k">>, <<"a","l","s","o">>, <<"b","a","c","k">>,
    <<"a","f","t","e","r">>, <<"u","s","e">>, <<"t","w","o">>, <<"h","o","w">>,
    <<"o","u","r">>, <<"w","o","r","k">>, <<"f","i","r","s","t">>, <<"w","e","l","l">>,
    <<"w","a","y">>, <<"e","v","e","n">>, <<"n","e","w">>, <<"w","a","n","t">>,
    <<"b","e","c","a","u","s","e">>, <<"a","n","y">>, <<"t","h","e","s","e">>,
    <<"g","i","v","e">>, <<"d","a","y">>, <<"m","o","s","t">>, <<"u","s">>, <<"w","a","s">>
    }

----------------------------------------------------------------------------
(* Episodes and the catalog (src/lib.rs) *)

\* Episode: the fields the search reads (date, duration and url are only passed on)
Episode(id, title, tags) == [id |-> id, title |-> title, tags |-> tags]

DigitChar(d) ==
    CASE d = 0 -> "0" [] d = 1 -> "1" [] d = 2 -> "2" [] d = 3 -> "3" [] d = 4 -> "4"
      [] d = 5 -> "5" [] d = 6 -> "6" [] d = 7 -> "7" [] d = 8 -> "8" [] d = 9 -> "9"

\* id.to_string(): the decimal digits of a usize
RECURSIVE to_string(_)
to_string(n) ==
    IF n < 10 THEN <<DigitChar(n)>> ELSE to_string(n \div 10) \o <<DigitChar(n % 10)>>

\* the titles and the tag lists the episodes of the model are made of
Titles == { <<"A", "b">>, <<"a">> }

TagLists == { <<>>, << <<"b">> >>, << <<"B">> >>, << <<"a", "b">>, <<"b">> >> }

\* EpisodesById: the catalogs of at most MaxRecords episodes, keyed by their ids
Catalogs ==
    UNION { { [id \in 1..n |-> Episode(id, shape[id][1], shape[id][2])] :
                shape \in [1..n -> Titles \X TagLists] } : n \in 0..MaxRecords }

\* EpisodesByTag: tag -> the ids of the episodes that carry the tag
episodes_by_tag(by_id) ==
    LET tags == UNION { {by_id[id].tags[k] : k \in DOMAIN by_id[id].tags} : id \in DOMAIN by_id }
    IN  [tag \in tags |->
            {id \in DOMAIN by_id : \E k \in DOMAIN by_id[id].tags : by_id[id].tags[k] = tag}]

\* get_episodes_from_ids
get_episodes_from_ids(ids, by_id) == {by_id[id] : id \in ids}

----------------------------------------------------------------------------
(* handle_search (src/main.rs) *)

\* the stoplist applied before the terms are lower-cased
filter_then_lowercase(ts) ==
    {to_lowercase(t) : t \in {ts[k] : k \in DOMAIN ts} \ load_common_words}

\* terms.iter().map(to_lowercase).filter(!common_words.contains).collect::<HashSet>()
lowercase_and_filter(ts) ==
    {to_lowercase(ts[k]) : k \in DOMAIN ts} \ load_common_words

\* HashSet::from_iter(exclude.into_iter())
exclude_set(ex) == {ex[k] : k \in DOMAIN ex}

\* the loop over episodes_by_tag: the episodes of every tag some term matches
match_by_tag(by_id, ts) ==
    LET by_tag == episodes_by_tag(by_id) IN
    UNION { get_episodes_from_ids(by_tag[tag], by_id) :
              tag \in {g \in DOMAIN by_tag :
                          \E term \in ts : contains(g, term) \/ contains(term, g)} }

\* the loop over episodes_by_id: the episodes some term matches by id or by title
match_by_id_or_title(by_id, ts) ==
    { by_id[id] : id \in {i \in DOMAIN by_id :
          \/ to_string(i) \in ts
          \/ \E term \in ts : contains(to_lowercase(by_id[i].title), term)} }

\* the filter over search_results: episodes with a tag that contains an exclude token go
exclusion_filter(found, ex) ==
    { episode \in found :
        ~ \E k \in DOMAIN episode.tags : \E token \in ex : contains(episode.tags[k], token) }

\* episode.tags.iter().fold(0, ...): 50 for every tag that is a term or contains one
RECURSIVE tag_score(_, _)
tag_score(tags, ts) ==
    IF tags = <<>> THEN 0
    ELSE tag_score(SubSeq(tags, 1, Len(tags) - 1), ts)
         + (IF tags[Len(tags)] \in ts \/ \E term \in ts : contains(tags[Len(tags)], term)
            THEN 50 ELSE 0)

\* terms.iter().fold(0, ...): 100 for every term the lower-cased title contains
RECURSIVE title_score(_, _)
title_score(title, ts) ==
    IF ts = {} THEN 0
    ELSE LET term == CHOOSE t \in ts : TRUE IN
         title_score(title, ts \ {term})
         + (IF contains(to_lowercase(title), term) THEN 100 ELSE 0)

score_of(episode, ts) == tag_score(episode.tags, ts) + title_score(episode.title, ts)

\* the orders in which iterating a HashSet can give its elements
IterationOrders(set) ==
    { ord \in [1..Cardinality(set) -> set] :
        \A i, j \in 1..Cardinality(set) : i # j => ord[i] # ord[j] }

\* Ord::cmp
cmp(a, b) == IF a < b THEN "Less" ELSE IF a = b THEN "Equal" ELSE "Greater"

\* the closure handed to sort_by with the scores the wrong way round
compare_ascending(a_score, b_score) == cmp(a_score, b_score)

\* the closure handed to sort_by: |(a_score, _), (b_score, _)| b_score.cmp(a_score)
compare(a_score, b_score) == cmp(b_score, a_score)

\* slice::sort_by is a stable sort: an insertion sort gives the same order
RECURSIVE sort_insert(_, _)
sort_insert(sorted, x) ==
    IF sorted = <<>> THEN <<x>>
    ELSE IF compare(x.score, Head(sorted).score) = "Less" THEN <<x>> \o sorted
    ELSE <<Head(sorted)>> \o sort_insert(Tail(sorted), x)

RECURSIVE sort_by(_)
sort_by(seq) ==
    IF seq = <<>> THEN <<>>
    ELSE sort_insert(sort_by(SubSeq(seq, 1, Len(seq) - 1)), seq[Len(seq)])

----------------------------------------------------------------------------
(* The parser as a state machine: one action per iteration of parse()'s loop *)

ParserInit ==
    /\ source \in StringsUpTo(Alphabet, MaxLen)
    /\ index = 0
    /\ terms = <<>>
    /\ exclude = <<>>
    /\ pc = "parse"
    /\ catalog = <<>>
    /\ search_terms = {}
    /\ search_exclude = {}
    /\ search_results = {}
    /\ scored = <<>>
    /\ results = <<>>

\* get_token() returned Some(token): the token is classified and the loop goes on
ParseToken ==
    /\ pc = "parse"
    /\ LET r == get_token(source, index) IN
       /\ r.some \/ ~r.ok
       /\ index' = r.index
       /\ pc' = IF r.ok THEN "parse" ELSE "panic"
       /\ LET c == IF r.ok THEN classify(r.token, terms, exclude)
                   ELSE [terms |-> terms, exclude |-> exclude]
          IN  terms' = c.terms /\ exclude' = c.exclude
    /\ UNCHANGED <<source, search_vars>>

\* get_token() returned None: parse() returns ParseResult { terms, exclude }
ParseReturn ==
    /\ pc = "parse"
    /\ LET r == get_token(source, index) IN
       /\ r.ok /\ ~r.some
       /\ index' = r.index
    /\ pc' = "done"
    /\ UNCHANGED <<source, terms, exclude, search_vars>>

ParserNext == ParseToken \/ ParseReturn

Spec == ParserInit /\ [][ParserNext]_vars

----------------------------------------------------------------------------
(* handle_search as a state machine: one action per stage of the handler *)

\* the tokens the queries of the search specification are made of
Tokens == { <<"b">>, <<"A">>, <<"a", "b">>, <<"1">>, <<Dash, "b">>, <<Dash, "B">> }

RECURSIVE JoinTokens(_)
JoinTokens(toks) ==
    IF toks = <<>> THEN <<>>
    ELSE IF Len(toks) = 1 THEN toks[1]
    ELSE toks[1] \o <<Space>> \o JoinTokens(Tail(toks))

\* the query strings: at most MaxTokens tokens with a space between them
SearchQueries == { JoinTokens(toks) : toks \in StringsUpTo(Tokens, MaxTokens) }

SearchInit ==
    /\ source \in SearchQueries
    /\ catalog \in Catalogs
    /\ index = 0
    /\ terms = <<>>
    /\ exclude = <<>>
    /\ pc = "query"
    /\ search_terms = {}
    /\ search_exclude = {}
    /\ search_results = {}
    /\ scored = <<>>
    /\ results = <<>>

\* parse_query(&query), then the term set and the exclude set (the QueryParser and
\* its cursor live inside parse_query)
ParseQuery ==
    /\ pc = "query"
    /\ LET r == parse_query(source) IN
       /\ terms' = r.terms
       /\ exclude' = r.exclude
       /\ search_terms' = lowercase_and_filter(r.terms)
       /\ search_exclude' = exclude_set(r.exclude)
    /\ pc' = "match"
    /\ UNCHANGED <<source, index, catalog, search_results, scored, results>>

\* the two matching loops fill search_results
Match ==
    /\ pc = "match"
    /\ search_results' = match_by_tag(catalog, search_terms)
                            \cup match_by_id_or_title(catalog, search_terms)
    /\ pc' = "filter"
    /\ UNCHANGED <<parser_vars, catalog, search_terms, search_exclude, scored, results>>

\* "filtering the results"
Filter ==
    /\ pc = "filter"
    /\ search_results' = exclusion_filter(search_results, search_exclude)
    /\ pc' = "score"
    /\ UNCHANGED <<parser_vars, catalog, search_terms, search_exclude, scored, results>>

\* every episode left gets its score, in the order the HashSet gives them
Score ==
    /\ pc = "score"
    /\ \E ord \in IterationOrders(search_results) :
          scored' = [k \in DOMAIN ord |->
                        [score |-> score_of(ord[k], search_terms), episode |-> ord[k]]]
    /\ pc' = "sort"
    /\ UNCHANGED <<parser_vars, catalog, search_terms, search_exclude, search_results,
                   results>>

\* sort_by, then the episodes without their scores
Sort ==
    /\ pc = "sort"
    /\ scored' = sort_by(scored)
    /\ results' = [k \in DOMAIN scored |-> sort_by(scored)[k].episode]
    /\ pc' = "done"
    /\ UNCHANGED <<parser_vars, catalog, search_terms, search_exclude, search_results>>

SearchNext == ParseQuery \/ Match \/ Filter \/ Score \/ Sort

SearchSpec == SearchInit /\ [][SearchNext]_vars

----------------------------------------------------------------------------
(* The shapes of query text the parser properties speak of, stated on the text *)

\* the first position at or after i that holds no whitespace (Len(src) if none)
FirstNonSpace(src, i) ==
    IF i >= Len(src) THEN i ELSE
    CHOOSE p \in i..Len(src) :
        /\ p = Len(src) \/ ~char_is_whitespace(src[p + 1])
        /\ \A k \in i..(p - 1) : char_is_whitespace(src[k + 1])

\* the end of the run of dashes that starts at p
DashRunEnd(src, p) ==
    IF p >= Len(src) THEN p ELSE
    CHOOSE e \in p..Len(src) :
        /\ e = Len(src) \/ src[e + 1] # Dash
        /\ \A k \in p..(e - 1) : src[k + 1] = Dash

\* the end of the run of non-whitespace characters that starts at p
BareEnd(src, p) ==
    IF p >= Len(src) THEN p ELSE
    CHOOSE e \in p..Len(src) :
        /\ e = Len(src) \/ char_is_whitespace(src[e + 1])
        /\ \A k \in p..(e - 1) : ~char_is_whitespace(src[k + 1])

\* the position of the first quote at or after p (Len(src) if none)
QuoteEnd(src, p) ==
    IF p >= Len(src) THEN p ELSE
    CHOOSE e \in p..Len(src) :
        /\ e = Len(src) \/ src[e + 1] = DQuote
        /\ \A k \in p..(e - 1) : src[k + 1] # DQuote

\* a bare token starts at p: a character that is no whitespace, dash or quote
BareAt(src, p) ==
    p < Len(src) /\ ~char_is_whitespace(src[p + 1]) /\ src[p + 1] \notin {Dash, DQuote}

BareText(src, p) == SubSeq(src, p + 1, BareEnd(src, p))

\* a quoted phrase starts at p
QuotedAt(src, p) == p < Len(src) /\ src[p + 1] = DQuote

\* the text between the opening quote at p and the closing quote or the end of input
QuotedText(src, p) == SubSeq(src, p + 2, QuoteEnd(src, p + 1))

\* where the next token of the running parse starts
TokenStart == FirstNonSpace(source, index)

\* the next token is a run of dashes
DashRunNext == pc = "parse" /\ TokenStart < Len(source) /\ source[TokenStart + 1] = Dash

\* the next token is a dash run with a bare token or a quoted phrase with non-empty
\* trimmed content right after it
DashPrefixedNext ==
    /\ DashRunNext
    /\ LET e == DashRunEnd(source, TokenStart) IN
       \/ BareAt(source, e)
       \/ QuotedAt(source, e) /\ trim(QuotedText(source, e)) # <<>>

DashPrefixedContent ==
    LET e == DashRunEnd(source, TokenStart) IN
    IF BareAt(source, e) THEN BareText(source, e)
    ELSE trim(trim_start_matches(QuotedText(source, e), Dash))

\* the next token is a dash run, then whitespace, then a bare token
DashSpaceBareNext ==
    /\ DashRunNext
    /\ LET e == DashRunEnd(source, TokenStart) IN
       /\ e < Len(source) /\ char_is_whitespace(source[e + 1])
       /\ BareAt(source, FirstNonSpace(source, e))

DashSpaceBareText ==
    BareText(source, FirstNonSpace(source, DashRunEnd(source, TokenStart)))

\* the next token is a bare token (hyphens, if any, only after its first character)
BareNext == pc = "parse" /\ BareAt(source, TokenStart)

\* the next token is a quoted phrase with no dash before it
QuotedNext ==
    /\ pc = "parse"
    /\ QuotedAt(source, TokenStart)
    /\ TokenStart = 0 \/ source[TokenStart] # Dash

\* the whole query is a dash run, whitespace, and one bare token
DashSpaceBareQuery ==
    /\ Len(source) > 0 /\ source[1] = Dash
    /\ LET e == DashRunEnd(source, 0) IN
       /\ e < Len(source) /\ char_is_whitespace(source[e + 1])
       /\ BareAt(source, FirstNonSpace(source, e))
       /\ BareEnd(source, FirstNonSpace(source, e)) = Len(source)

DashSpaceBareQueryText == BareText(source, FirstNonSpace(source, DashRunEnd(source, 0)))

----------------------------------------------------------------------------
(* Properties of the parser *)

\* C1: a bare token, or a quoted phrase with non-empty trimmed content, that comes
\* right after a run of n >= 1 dashes goes into exclude exactly once, dash-stripped
\* and trimmed, and nothing goes into terms for it, wherever it stands in the query.
C1_DashPrefixedIsExcluded ==
    [][DashPrefixedNext =>
          /\ exclude' = Append(exclude, DashPrefixedContent)
          /\ terms' = terms]_vars

\* C5: no element of terms and no element of exclude is the empty string.
C5_NoEmptyElement ==
    /\ \A k \in 1..Len(terms) : terms[k] # <<>>
    /\ \A k \in 1..Len(exclude) : exclude[k] # <<>>

C7_DashSpaceTokenIsTerm ==
    (pc = "done" /\ DashSpaceBareQuery) =>
        terms = <<DashSpaceBareQueryText>> /\ exclude = <<>>

\* C7 amended: a query of n >= 1 dashes, whitespace and a bare token w gives
\* terms = [] and exclude = [w]: the dash run reaches over the whitespace.
C7_DashSpaceTokenIsExcluded ==
    (pc = "done" /\ DashSpaceBareQuery) =>
        terms = <<>> /\ exclude = <<DashSpaceBareQueryText>>

\* the parse of "--- a" has returned
C7_Witness ==
    /\ pc = "done"
    /\ source = <<Dash, Dash, Dash, Space, "a">>
    /\ exclude = << <<"a">> >>

\* C8: a dash run, whitespace, then a bare token w puts w into exclude and not into
\* terms, however many dashes; a bare token with hyphens only after its first
\* character is one include term.
C8_DashRunReachesOverSpace ==
    [][/\ DashSpaceBareNext =>
              exclude' = Append(exclude, DashSpaceBareText) /\ terms' = terms
       /\ BareNext =>
              terms' = Append(terms, BareText(source, TokenStart)) /\ exclude' = exclude]_vars

\* the parse of "- a a-a" has returned
C8_Witness ==
    /\ pc = "done"
    /\ source = <<Dash, Space, "a", Space, "a", Dash, "a">>
    /\ terms = << <<"a", Dash, "a">> >>
    /\ exclude = << <<"a">> >>

\* C10: no read of the cursor is out of bounds; every get_token call that returns a
\* token has moved the cursor forward; the cursor never passes the end by more than
\* the skip of a missing closing quote, so the loop ends; and parse returns only
\* with the cursor at the end of the input.
C10_ParseIsTotal ==
    [][/\ pc' # "panic"
       /\ get_token(source, index).ok
       /\ pc' = "parse" => index' > index /\ get_token(source, index).moved
       /\ index' <= Len(source) + 1
       /\ pc' = "done" => index' >= Len(source)]_vars

\* a parse that ran into a missing closing quote after a dash run has returned
C10_Witness ==
    /\ pc = "done"
    /\ index > Len(source)
    /\ Len(source) = MaxLen
    /\ source[1] = Dash /\ source[2] = Dash /\ source[3] = DQuote

----------------------------------------------------------------------------
(* Properties of the search *)

\* the include terms of the query, lower-cased, without the stoplist words
IncludeTerms == {to_lowercase(terms[k]) : k \in DOMAIN terms} \ load_common_words

TagsOf(episode) == {episode.tags[k] : k \in DOMAIN episode.tags}

\* term t matches the episode on one of the three criteria, tags lower-cased
Matches(episode, t) ==
    \/ \E tag \in TagsOf(episode) :
          contains(to_lowercase(tag), t) \/ contains(t, to_lowercase(tag))
    \/ contains(to_lowercase(episode.title), t)
    \/ to_string(episode.id) = t

\* C2: the candidates of the matching step are exactly the episodes of the catalog
\* that some include term matches by a lower-cased tag (either direction of
\* containment), by the lower-cased title, or by the decimal id.
C2_CandidatesAreTheMatches ==
    pc = "filter" =>
        search_results =
            { catalog[id] : id \in {i \in DOMAIN catalog :
                                      \E t \in IncludeTerms : Matches(catalog[i], t)} }

\* some tag of the episode, lower-cased, contains some exclude term, case ignored
ExcludedByTag(episode) ==
    \E tag \in TagsOf(episode) : \E k \in DOMAIN exclude :
        contains(to_lowercase(tag), to_lowercase(exclude[k]))

\* C3: the exclusion step removes a candidate if and only if one of its tags,
\* lower-cased, contains an exclude term compared case-insensitively; titles and ids
\* are not looked at, and with no exclude terms nothing is removed.
C3_ExclusionByTagIgnoringCase ==
    [][pc = "filter" =>
          search_results' = {episode \in search_results : ~ExcludedByTag(episode)}]_vars

\* 50 for each tag that equals or contains a term, 100 for each term in the title
ScoreOf(episode) ==
    50 * Cardinality({k \in DOMAIN episode.tags :
                        \E t \in search_terms :
                            episode.tags[k] = t \/ contains(episode.tags[k], t)})
    + 100 * Cardinality({t \in search_terms : contains(to_lowercase(episode.title), t)})

\* C4: the episodes search returns are in non-increasing order of score, the score
\* being 50 per tag that equals or contains a term plus 100 per distinct term the
\* lower-cased title contains, and no score is negative.
C4_ResultsByScoreDescending ==
    pc = "done" =>
        /\ Len(results) = Len(scored)
        /\ \A k \in DOMAIN results :
              /\ results[k] = scored[k].episode
              /\ scored[k].score = ScoreOf(results[k])
              /\ ScoreOf(results[k]) >= 0
              /\ k < Len(results) => ScoreOf(results[k]) >= ScoreOf(results[k + 1])

\* a search has returned two episodes of different scores, the first with tag and
\* title hits
C4_Witness ==
    /\ pc = "done"
    /\ Len(results) >= 2
    /\ ScoreOf(results[1]) >= 150
    /\ ScoreOf(results[1]) > ScoreOf(results[Len(results)])
    /\ ScoreOf(results[Len(results)]) > 0

\* every include term of the query is a stoplist word, case ignored
OnlyStopWords == \A k \in DOMAIN terms : to_lowercase(terms[k]) \in load_common_words

\* C9: when the stoplist leaves no include term, matching finds nothing and the
\* search returns the empty sequence, whatever the catalog and the exclude terms.
C9_OnlyStopWordsFindNothing ==
    (pc \in {"filter", "score", "sort", "done"} /\ OnlyStopWords) =>
        search_results = {} /\ results = <<>>

\* a search for an upper-case stoplist word, with an exclude term, over a catalog
\* with a title that contains the word has returned nothing
C9_Witness ==
    /\ pc = "done"
    /\ terms # <<>> /\ exclude # <<>>
    /\ OnlyStopWords
    /\ terms[1] # to_lowercase(terms[1])
    /\ \E id \in DOMAIN catalog :
          contains(to_lowercase(catalog[id].title), to_lowercase(terms[1]))
    /\ results = <<>>

====
